---- MODULE Spec2Model ----
(***************************************************************************)
(* A model of github.com/n-r-w/sqlq: the reentrant transaction manager Tx  *)
(* and the statement executor Query (src/query.go).                        *)
(*                                                                         *)
(* The pgx driver (pool, physical transaction, row cursor) is outside the  *)
(* repository; each driver call is modelled by its outcome, drawn          *)
(* nondeterministically (success or failure, the result it returns).       *)
(* nerr.New wraps an error and maps a nil error to nil, so an error value  *)
(* is modelled by its kind: "nil", "driver" (wrapped driver error) or      *)
(* "notx" (the no-active-transaction error).                               *)
(***************************************************************************)
EXTENDS Integers, Sequences, FiniteSets, TLC

\* ---------------------------------------------------------------- bounds
\* Deepest nesting of Begin calls explored.
MaxLevel == 2
\* Most Begin calls of one outermost scope that the bookkeeping follows; a
\* longer scope goes on, untracked.
MaxBegins == 3
\* Connections of the pool.
PoolCap == 1
\* Integer widths. The checker's integers are narrower than an int64, so the
\* widths are scaled down: an int64 / uint64 has WideBits bits, the int of
\* a 32-bit build NarrowBits bits (the int of a 64-bit build is as wide as
\* an int64).
WideBits == 16
NarrowBits == 8

\* ------------------------------------------------------------ driver side
\* A nil reference (pgx.Tx, pgx.Rows): the empty sequence; a present one is
\* a one-element sequence holding the object.
Nil == <<>>

IsoLevels == {"read committed", "serializable"}
AccessModes == {"read write", "read only"}

\* pool.BeginTx(ctx, TxOptions{level, mode}): (handle, nil) on success,
\* (nil, err) on a driver failure or a cancelled context.
PoolBeginTx(level, mode, ok) ==
    IF ok THEN [h |-> <<[iso |-> level, mode |-> mode]>>, err |-> "nil"]
          ELSE [h |-> Nil, err |-> "driver"]

\* pgx.Tx.Commit / pgx.Tx.Rollback: the error the driver returns.
DriverEnd(ok) == IF ok THEN "nil" ELSE "driver"

\* nerr.New(err): nil for a nil error, the wrapped error otherwise.
Wrap(err) == err

\* Column and lookup names are sequences of characters, so that
\* strings.ToLower is computed character by character.
LowerOf == [c \in {"A", "B", "T", "X"} |->
              CASE c = "A" -> "a" [] c = "B" -> "b" [] c = "T" -> "t"
                [] OTHER -> "x"]

ToLowerChar(c) == IF c \in DOMAIN LowerOf THEN LowerOf[c] ELSE c

\* strings.ToLower
ToLower(s) == [i \in 1..Len(s) |-> ToLowerChar(s[i])]

\* Values the driver decodes a cell to (interface{}): SQL NULL is nil.
NullV == [k |-> "nil"]
IntV(n) == [k |-> "int64", i |-> n]
StrV(t) == [k |-> "string", s |-> t]
BoolV(b) == [k |-> "bool", b |-> b]
\* float64, held in thousandths
FloatV(m) == [k |-> "float64", m |-> m]
\* time.Time: days since the zero time, seconds of the day, microseconds of
\* the second
TimeV(d, sec, us) == [k |-> "time", d |-> d, sec |-> sec, us |-> us]
\* []byte
BytesV(t) == [k |-> "bytes", s |-> t]
\* []string, pgtype.TextArray (its elements' String), pgtype.Int8Array (its
\* elements' Int), []time.Time
StringsV(e) == [k |-> "[]string", e |-> e]
TextArrayV(e) == [k |-> "TextArray", e |-> e]
Int8ArrayV(e) == [k |-> "Int8Array", e |-> e]
TimesV(e) == [k |-> "[]time", e |-> e]
\* float32 (the result of Float32): the float32 nearest to m thousandths
Float32V(m) == [k |-> "float32", m |-> m]
\* []int, []int64 (the results of IntArray, IntArray64)
IntsV(e) == [k |-> "[]int", e |-> e]

\* pgtype.TimeOID, the wire type of a time-of-day column.
TimeOID == 1083

\* The wire types the connection's ConnInfo knows (bool, bytea, int8, text,
\* float8, text[], int8[], time, timestamp, timestamp[]).
KnownOIDs == {16, 17, 20, 25, 701, 1009, 1016, TimeOID, 1114, 1115}

\* ConnInfo.DataTypeForOID(oid): the data type's OID, 0 when unknown.
DataTypeForOID(oid) == IF oid \in KnownOIDs THEN oid ELSE 0

\* ConnInfo.DataTypeForOID(oid).Name
DataTypeNameForOID(oid) ==
    CASE oid = 20 -> "int8" [] oid = 25 -> "text" [] oid = TimeOID -> "time"
      [] oid = 16 -> "bool" [] oid = 17 -> "bytea" [] oid = 701 -> "float8"
      [] oid = 1009 -> "_text" [] oid = 1016 -> "_int8"
      [] oid = 1114 -> "timestamp" [] oid = 1115 -> "_timestamp"
      [] OTHER -> ""

\* A text in the layout "2006-01-02 15:04:05".
TimeText ==
    <<"2", "0", "0", "6", "-", "0", "1", "-", "0", "2", " ",
      "1", "5", ":", "0", "4", ":", "0", "5">>

\* What the server answers to the statements a caller selects with: the
\* column directory (name, wire type) and the rows.
\*   1  SELECT 1 AS x
\*   2  a text column "Ab" and a time-of-day column "t", then a column of
\*      each other kind of cell: bool "bt", float8 "xa" (2.5), timestamp
\*      "ta", bytea "ba", int8 "tb" (300, more than a narrow int holds),
\*      text "xb" ("42"), text[] "aa" decoded to a TextArray, int8[] "bb"
\*      decoded to an Int8Array, text[] "ax" as a []string, timestamp[]
\*      "tx" as a []time.Time, text "bx" (a timestamp as text); two rows,
\*      the second all NULL
\*   3  a column x and no row
ResultSets == <<
    [cols |-> << [Name |-> <<"x">>, OID |-> 20] >>,
     data |-> << <<IntV(1)>> >>],
    [cols |-> << [Name |-> <<"A", "b">>, OID |-> 25],
                 [Name |-> <<"t">>, OID |-> TimeOID],
                 [Name |-> <<"b", "t">>, OID |-> 16],
                 [Name |-> <<"x", "a">>, OID |-> 701],
                 [Name |-> <<"t", "a">>, OID |-> 1114],
                 [Name |-> <<"b", "a">>, OID |-> 17],
                 [Name |-> <<"t", "b">>, OID |-> 20],
                 [Name |-> <<"x", "b">>, OID |-> 25],
                 [Name |-> <<"a", "a">>, OID |-> 1009],
                 [Name |-> <<"b", "b">>, OID |-> 1016],
                 [Name |-> <<"a", "x">>, OID |-> 1009],
                 [Name |-> <<"t", "x">>, OID |-> 1115],
                 [Name |-> <<"b", "x">>, OID |-> 25] >>,
     data |-> << <<StrV(<<"y", "e", "s">>), IntV(3), BoolV(TRUE),
                   FloatV(2500), TimeV(2, 0, 5), BytesV(<<"a", "b">>),
                   IntV(300), StrV(<<"4", "2">>),
                   TextArrayV(<<<<"a">>, <<"b">>>>),
                   Int8ArrayV(<<300, 1>>),
                   StringsV(<<<<"x">>>>),
                   TimesV(<<TimeV(2, 0, 5)>>), StrV(TimeText)>>,
                 <<NullV, NullV, NullV, NullV, NullV, NullV, NullV, NullV,
                   NullV, NullV, NullV, NullV, NullV>> >>],
    [cols |-> << [Name |-> <<"x">>, OID |-> 20] >>,
     data |-> << >>]
 >>

\* The command tags a driver Exec returns: empty (an empty statement), or a
\* tag carrying the affected-row count.
Tags == {<<>>, <<0>>, <<1>>}

\* pgconn.CommandTag.RowsAffected
TagRowsAffected(t) == IF Len(t) = 0 THEN 0 ELSE t[1]

\* pool.Exec / tx.Exec: the tag and error the driver returns. A failed call
\* can carry a tag too (the statements that ran before the failing one).
DriverExec(t, ok) == [tag |-> t, err |-> IF ok THEN "nil" ELSE "driver"]

\* pool.Query / tx.Query on success: a cursor before its first row. rel
\* counts the times the driver released the cursor's resources.
NewCursor(rs) ==
    [rs |-> rs, pos |-> 0, closed |-> FALSE, err |-> "nil", rel |-> 0]

\* pgx.Rows.FieldDescriptions
RowsFieldDescriptions(c) == ResultSets[c.rs].cols

\* pgx.Rows.Next: false on a closed cursor; the next row if there is one;
\* at the end of the result, or on a failure in mid-stream (ok = FALSE), the
\* cursor closes itself.
RowsNext(c, ok) ==
    IF c.closed THEN [c |-> c, ret |-> FALSE]
    ELSE IF ~ok THEN [c |-> [c EXCEPT !.closed = TRUE, !.err = "driver",
                                      !.rel = @ + 1],
                      ret |-> FALSE]
    ELSE IF c.pos < Len(ResultSets[c.rs].data)
         THEN [c |-> [c EXCEPT !.pos = @ + 1], ret |-> TRUE]
         ELSE [c |-> [c EXCEPT !.closed = TRUE, !.rel = @ + 1],
               ret |-> FALSE]

\* pgx.Rows.Close: idempotent; closing an open cursor reads the rest of the
\* result, which is where a pending driver error shows (ok = FALSE).
RowsClose(c, ok) ==
    IF c.closed THEN c
    ELSE [c EXCEPT !.closed = TRUE, !.err = IF ok THEN @ ELSE "driver",
                   !.rel = @ + 1]

\* pgx.Rows.Err
RowsErr(c) == c.err

\* pgx.Rows.CommandTag: after a clean close "SELECT n", n the rows of the
\* result; empty before the close or after an error.
RowsCommandTag(c) ==
    IF c.closed /\ c.err = "nil" THEN <<Len(ResultSets[c.rs].data)>> ELSE <<>>

\* pgx.Rows.Values: an error on a closed cursor, the current row otherwise.
\* Before the first Next there is no current row and the driver documents no
\* result: `before` is what this build of the driver does then, a panic or a
\* row of nils.
RowsValues(c, before) ==
    IF c.closed THEN [out |-> "ok", vals |-> Nil, err |-> "closed"]
    ELSE IF c.pos = 0
         THEN IF before = "panic" /\ Len(RowsFieldDescriptions(c)) > 0
              THEN [out |-> "panic", vals |-> Nil, err |-> "nil"]
              ELSE [out |-> "ok",
                    vals |-> [i \in 1..Len(RowsFieldDescriptions(c)) |-> NullV],
                    err |-> "nil"]
         ELSE [out |-> "ok", vals |-> ResultSets[c.rs].data[c.pos],
               err |-> "nil"]

\* ---------------------------------------------------------------- state
VARIABLES
    counter,    \* Tx.counter
    tx,         \* Tx.tx: Nil or <<handle>>
    txres,      \* the last Tx call: its name (op), the error it returned
                \* (err), the driver call it issued (phys) and how the driver
                \* answered it (drv)
    hist        \* bookkeeping of the current outermost scope: Begin and
                \* Commit calls made, physical begins and commits issued,
                \* whether the scope is still clean (no Rollback, no failed
                \* call, at most MaxBegins Begin calls), and whether a
                \* Rollback took effect with no Begin called since

VARIABLES
    qtx,              \* Query.tx # nil: the Query was made by NewQueryTx
    rows,             \* Query.rows: Nil or <<cursor>>
    tag,              \* Query.tag
    fields,           \* Query.fields: lower-case column name -> position
    lastValues,       \* Query.lastValues
    lastDescriptions, \* Query.lastDescriptions
    acquired,         \* pool connections the Query acquired and still holds
    valuesBeforeNext, \* what the driver's Rows.Values does before the first
                      \* Next: "panic" or "nils", fixed for a build
    lastExec,         \* the most recent Exec or Select: its kind and outcome
    qres              \* the last Query call: its name (op), how it ended
                      \* (out: "ok", "err", "panic"), what it returned (ret),
                      \* where the statement went (route) and whether the
                      \* Session held a handle when it was called (inTx)

txvars == <<counter, tx, txres, hist>>
qvars == <<qtx, rows, tag, fields, lastValues, lastDescriptions, acquired,
           valuesBeforeNext, lastExec, qres>>
vars == <<counter, tx, txres, hist, qtx, rows, tag, fields, lastValues,
          lastDescriptions, acquired, valuesBeforeNext, lastExec, qres>>

TxRes(op, err, phys, drv) == [op |-> op, err |-> err, phys |-> phys, drv |-> drv]

FreshHist == [begins |-> 0, commits |-> 0, physBegin |-> 0, physCommit |-> 0,
              clean |-> TRUE, rolledBack |-> FALSE]
DirtyHist == [FreshHist EXCEPT !.clean = FALSE]

\* The scope stops being clean.
HistDirty(h) == [DirtyHist EXCEPT !.rolledBack = h.rolledBack]

\* One more Begin call in the scope h.
HistBegin(h, phys) ==
    IF h.clean /\ h.begins < MaxBegins
    THEN [h EXCEPT !.begins = @ + 1, !.physBegin = @ + phys]
    ELSE HistDirty(h)

\* One more Commit call in the scope h.
HistCommit(h, phys) ==
    IF h.clean
    THEN [h EXCEPT !.commits = @ + 1, !.physCommit = @ + phys]
    ELSE HistDirty(h)

\* Level - nesting level. 0 - no transaction
Level == counter

\* NewTx
InitTx ==
    /\ counter = 0
    /\ tx = Nil
    /\ txres = TxRes("none", "nil", "none", "none")
    /\ hist = FreshHist

\* ------------------------------------------------------------------- Tx
\* Faulty variant: the second Begin of a scope opens a transaction again.
BeginIsNestedAboveOne(c) == c > 1

\* BeginTx: "if t.counter > 0": a Begin on an open transaction is nested.
BeginIsNested(c) == c > 0

\* Faulty variant: the error of the physical begin is not looked at.
BeginNeverFailed(r) == FALSE

\* BeginTx: "if err != nil { return nerr.New(err) }".
BeginFailed(r) == r.err # "nil"

\* Faulty variant: the counter is not tested against 0.
NoTransactionNever(c) == c < 0

\* Commit, Rollback: "if t.counter == 0": no transaction to end.
NoTransaction(c) == c = 0

\* Commit: "t.counter--; if t.counter > 0 { return nil }": the counter after
\* the decrement decides whether the physical commit is issued.
CommitIsNested(c) == c > 0

\* Faulty variant: a Rollback that leaves one level only.
CounterAfterPartialRollback(c) == c - 1

\* Rollback: "t.counter = 0".
CounterAfterRollback(c) == 0

\* Faulty variant: the handle is never cleared.
HandleKept(h, err) == h

\* Faulty variant: the handle is cleared only when the driver call succeeds.
HandleKeptOnFailure(h, err) == IF err = "nil" THEN Nil ELSE h

\* Commit, Rollback: "t.tx = nil" after the physical call, whatever its error.
HandleAfterEnd(h, err) == Nil

\* Tx.BeginTx(level, mode); Tx.Begin is BeginTx(ReadCommitted, ReadWrite).
BeginTx ==
    /\ counter < MaxLevel
    /\ UNCHANGED qvars
    /\ \E level \in IsoLevels, mode \in AccessModes, ok \in BOOLEAN :
        LET h0 == IF counter = 0 THEN FreshHist ELSE hist IN
        IF BeginIsNested(counter)
        THEN /\ counter' = counter + 1
             /\ tx' = tx
             /\ txres' = TxRes("begin", "nil", "none", "none")
             /\ hist' = HistBegin(h0, 0)
        ELSE LET r == PoolBeginTx(level, mode, ok) IN
             IF BeginFailed(r)
             THEN /\ UNCHANGED <<counter, tx>>
                  /\ txres' = TxRes("begin", Wrap(r.err), "begin", "fail")
                  /\ hist' = HistDirty(h0)
             ELSE /\ tx' = r.h
                  /\ counter' = counter + 1
                  /\ txres' = TxRes("begin", "nil", "begin",
                                    IF ok THEN "ok" ELSE "fail")
                  /\ hist' = HistBegin(h0, 1)

\* Tx.Commit
Commit ==
    /\ UNCHANGED qvars
    /\ \E ok \in BOOLEAN :
        IF NoTransaction(counter)
        THEN /\ UNCHANGED <<counter, tx>>
             /\ txres' = TxRes("commit", "notx", "none", "none")
             /\ hist' = HistDirty(hist)
        ELSE /\ counter' = counter - 1
             /\ IF CommitIsNested(counter - 1)
                THEN /\ tx' = tx
                     /\ txres' = TxRes("commit", "nil", "none", "none")
                     /\ hist' = HistCommit(hist, 0)
                ELSE \* err := t.tx.Commit(t.ctx); t.tx = nil
                     LET err == DriverEnd(ok) IN
                     /\ tx' = HandleAfterEnd(tx, err)
                     /\ txres' = TxRes("commit", Wrap(err), "commit",
                                       IF ok THEN "ok" ELSE "fail")
                     /\ hist' = IF ok THEN HistCommit(hist, 1)
                                      ELSE HistDirty(hist)

\* Tx.Rollback
Rollback ==
    /\ UNCHANGED qvars
    /\ \E ok \in BOOLEAN :
        IF NoTransaction(counter)
        THEN /\ UNCHANGED <<counter, tx>>
             /\ txres' = TxRes("rollback", "notx", "none", "none")
             /\ hist' = HistDirty(hist)
        ELSE \* t.counter = 0; err := t.tx.Rollback(t.ctx); t.tx = nil
             LET err == DriverEnd(ok) IN
             /\ counter' = CounterAfterRollback(counter)
             /\ tx' = HandleAfterEnd(tx, err)
             /\ txres' = TxRes("rollback", Wrap(err), "rollback",
                               IF ok THEN "ok" ELSE "fail")
             /\ hist' = [DirtyHist EXCEPT !.rolledBack = TRUE]

\* ---------------------------------------------------------------- Query
EmptyFields == [n \in {} |-> 0]

QRes(op, out, ret, route, inTx) ==
    [op |-> op, out |-> out, ret |-> ret, route |-> route, inTx |-> inTx]

\* NewQuery (bound = FALSE) / NewQueryTx (bound = TRUE)
InitQuery ==
    /\ qtx \in BOOLEAN
    /\ rows = Nil
    /\ tag = <<>>
    /\ fields = EmptyFields
    /\ lastValues = Nil
    /\ lastDescriptions = Nil
    /\ acquired = 0
    /\ valuesBeforeNext \in {"panic", "nils"}
    /\ lastExec = [kind |-> "none", out |-> "ok"]
    /\ qres = QRes("none", "ok", "nil", "none", FALSE)

\* IsSelect - Select request type
IsSelect == rows # Nil

\* IsCommand - request type Insert, Delete, Update
IsCommand == Len(tag) > 0

\* Exec, Select: "if q.tx != nil { q.tx.tx.Exec(...) } else { q.pool.Exec(...) }".
\* The choice looks at the Session reference alone; the method is then called
\* on the Session's handle, and a call on a nil handle panics.
Target(bound, handle) ==
    IF bound THEN (IF handle = Nil THEN "nilhandle" ELSE "tx") ELSE "pool"

\* Select: "for i, d := range q.Fields() { q.fields[strings.ToLower(d.Name)] = i }"
\* (positions count from 0; a later column of the same lower-case name wins).
FieldsMap(cols) ==
    LET low == [i \in 1..Len(cols) |-> ToLower(cols[i].Name)]
        last(n) == CHOOSE i \in 1..Len(cols) :
                      /\ low[i] = n
                      /\ \A j \in (i + 1)..Len(cols) : low[j] # n
    IN  [n \in {low[i] : i \in 1..Len(cols)} |-> last(n) - 1]

\* Fields - list of fields (Select only)
Fields ==
    IF rows = Nil
    THEN IF Len(lastDescriptions) = 0 THEN <<>> ELSE lastDescriptions
    ELSE RowsFieldDescriptions(rows[1])

\* FieldName - field name by index
FieldName(index) ==
    IF rows = Nil \/ index < 0 \/ index >= Len(Fields)
    THEN <<>>
    ELSE Fields[index + 1].Name

\* A Contains that looks the name up as written.
ContainsExact(field) == field \in DOMAIN fields

\* Contains - does the specified field contain (Select only)
Contains(field) == ToLower(field) \in DOMAIN fields

\* Values
Values ==
    IF rows = Nil
    THEN [out |-> "ok",
          vals |-> IF Len(lastDescriptions) = 0 THEN <<>> ELSE lastValues,
          err |-> "nil"]
    ELSE RowsValues(rows[1], valuesBeforeNext)

\* Value - field value by name: [out, v], out = "panic" when Values panics.
Value(field) ==
    IF ToLower(field) \notin DOMAIN fields
    THEN [out |-> "ok", v |-> NullV]
    ELSE LET pos == fields[ToLower(field)]
             vs == Values
         IN  IF vs.out = "panic" THEN [out |-> "panic", v |-> NullV]
             ELSE IF vs.err # "nil" \/ Len(vs.vals) <= pos
                  THEN [out |-> "ok", v |-> NullV]
                  ELSE [out |-> "ok", v |-> vs.vals[pos + 1]]

\* ValueIndex - field value by index
ValueIndex(fieldIndex) ==
    IF rows = Nil \/ fieldIndex < 0 \/ fieldIndex >= Cardinality(DOMAIN fields)
    THEN [out |-> "ok", v |-> NullV]
    ELSE LET vs == Values
         IN  IF vs.out = "panic" THEN [out |-> "panic", v |-> NullV]
             ELSE IF vs.err # "nil" \/ Len(vs.vals) <= fieldIndex
                  THEN [out |-> "ok", v |-> NullV]
                  ELSE [out |-> "ok", v |-> vs.vals[fieldIndex + 1]]

Panic == [out |-> "panic", v |-> NullV]
Ret(v) == [out |-> "ok", v |-> v]

Digits == <<"0", "1", "2", "3", "4", "5", "6", "7", "8", "9">>
DigitVal(c) == (CHOOSE d \in 1..10 : Digits[d] = c) - 1
IsDigit(c) == \E d \in 1..10 : Digits[d] = c

RECURSIVE DigitsValue(_)
DigitsValue(t) ==
    IF Len(t) = 0 THEN 0
    ELSE 10 * DigitsValue(SubSeq(t, 1, Len(t) - 1)) + DigitVal(t[Len(t)])

RECURSIVE Pow2(_)
Pow2(n) == IF n = 0 THEN 1 ELSE 2 * Pow2(n - 1)

\* The integer types the conversions are instantiated with.
TInt64 == [bits |-> WideBits, signed |-> TRUE]
TUInt64 == [bits |-> WideBits, signed |-> FALSE]
\* int, on a build whose int has `bits` bits
TInt(bits) == [bits |-> bits, signed |-> TRUE]
\* The widths int has on the builds Go supports (32-bit and 64-bit).
IntWidths == {NarrowBits, WideBits}

\* T(d) for an integer d: the value kept modulo 2^bits.
ConvertTo(T, d) ==
    IF T.signed
    THEN ((d + Pow2(T.bits - 1)) % Pow2(T.bits)) - Pow2(T.bits - 1)
    ELSE d % Pow2(T.bits)

\* strconv.ParseInt(t, 10, 64): an optional sign and at least one digit, the
\* value within an int64.
ParseInt(t) ==
    LET signed == Len(t) > 0 /\ t[1] \in {"+", "-"}
        body == IF signed THEN SubSeq(t, 2, Len(t)) ELSE t
        i == IF signed /\ t[1] = "-" THEN 0 - DigitsValue(body)
             ELSE DigitsValue(body)
    IN  IF /\ Len(body) > 0 /\ Len(body) < 10
           /\ \A j \in 1..Len(body) : IsDigit(body[j])
           /\ i >= 0 - Pow2(WideBits - 1) /\ i < Pow2(WideBits - 1)
        THEN [ok |-> TRUE, i |-> i]
        ELSE [ok |-> FALSE, i |-> 0]

\* strconv.ParseFloat(t, 64) for plain decimals: an optional sign, digits
\* and an optional fraction, read to the thousandth.
ParseFloat(t) ==
    LET signed == Len(t) > 0 /\ t[1] \in {"+", "-"}
        body == IF signed THEN SubSeq(t, 2, Len(t)) ELSE t
        dots == {j \in 1..Len(body) : body[j] = "."}
        dot == IF dots = {} THEN Len(body) + 1 ELSE CHOOSE j \in dots : TRUE
        whole == SubSeq(body, 1, dot - 1)
        frac == SubSeq(body, dot + 1, Len(body))
        frac3 == SubSeq(frac \o <<"0", "0", "0">>, 1, 3)
        m == 1000 * DigitsValue(whole) + DigitsValue(frac3)
    IN  IF /\ Cardinality(dots) <= 1
           /\ Len(whole) + Len(frac) > 0 /\ Len(whole) < 7
           /\ \A j \in 1..Len(whole) : IsDigit(whole[j])
           /\ \A j \in 1..Len(frac) : IsDigit(frac[j])
        THEN [ok |-> TRUE, m |-> IF signed /\ t[1] = "-" THEN 0 - m ELSE m]
        ELSE [ok |-> FALSE, m |-> 0]

RECURSIVE NatToText(_)
NatToText(n) ==
    IF n < 10 THEN <<Digits[n + 1]>>
    ELSE NatToText(n \div 10) \o <<Digits[(n % 10) + 1]>>

\* fmt's %d / %v of an integer
IntToText(n) == IF n < 0 THEN <<"-">> \o NatToText(0 - n) ELSE NatToText(n)

\* fmt's %v of a float64 of m thousandths: the shortest decimal.
FloatToText(m) ==
    LET a == IF m < 0 THEN 0 - m ELSE m
        f == a % 1000
        d3 == <<Digits[(f \div 100) + 1], Digits[((f \div 10) % 10) + 1],
                Digits[(f % 10) + 1]>>
        keep == IF f % 10 # 0 THEN 3 ELSE IF f % 100 # 0 THEN 2 ELSE 1
    IN  (IF m < 0 THEN <<"-">> ELSE <<>>) \o NatToText(a \div 1000)
        \o (IF f = 0 THEN <<>> ELSE <<".">> \o SubSeq(d3, 1, keep))

\* A text that identifies the instant t (fmt prints a time.Time in its own
\* layout; the model keeps the three numbers of the instant).
TimeToText(t) ==
    IntToText(t.d) \o <<" ">> \o NatToText(t.sec) \o <<".">> \o NatToText(t.us)

RECURSIVE JoinTexts(_)
\* The texts of a sequence, a space between them.
JoinTexts(ts) ==
    IF Len(ts) = 0 THEN <<>>
    ELSE IF Len(ts) = 1 THEN ts[1]
    ELSE ts[1] \o <<" ">> \o JoinTexts(Tail(ts))

\* fmt's %v of a pgtype array struct {Elements, Dimensions, Status}: each
\* element {value Present}, one dimension {length 1}, Present (2).
PgArrayToText(elems) ==
    <<"{", "[">>
    \o JoinTexts([j \in 1..Len(elems) |-> <<"{">> \o elems[j] \o <<" ", "2", "}">>])
    \o <<"]", " ", "[", "{">> \o NatToText(Len(elems))
    \o <<" ", "1", "}", "]", " ", "2", "}">>

\* fmt.Sprintf("%v", d) for the values a cell decodes to.
Sprint(v) ==
    CASE v.k = "int64" -> IntToText(v.i)
      [] v.k = "bool" -> IF v.b THEN <<"t", "r", "u", "e">>
                         ELSE <<"f", "a", "l", "s", "e">>
      [] v.k = "float64" -> FloatToText(v.m)
      [] v.k = "time" -> TimeToText(v)
      [] v.k = "[]string" -> <<"[">> \o JoinTexts(v.e) \o <<"]">>
      [] v.k = "[]time" ->
            <<"[">> \o JoinTexts([j \in 1..Len(v.e) |-> TimeToText(v.e[j])])
            \o <<"]">>
      [] v.k = "TextArray" -> PgArrayToText(v.e)
      [] v.k = "Int8Array" ->
            PgArrayToText([j \in 1..Len(v.e) |-> IntToText(v.e[j])])
      [] OTHER -> <<>>

\* The hexadecimal digits
HexDigits == {Digits[d] : d \in 1..10}
             \cup {"a", "b", "c", "d", "e", "f", "A", "B", "C", "D", "E", "F"}

\* The character of the byte a pair of hexadecimal digits stands for; a byte
\* that is none of the model's letters is named by "0x??".
HexByte(hi, lo) ==
    CASE hi = "6" /\ lo = "1" -> "a"
      [] hi = "6" /\ lo = "2" -> "b"
      [] hi = "7" /\ lo = "4" -> "t"
      [] hi = "7" /\ lo = "8" -> "x"
      [] OTHER -> "0x??"

\* hex.DecodeString: fails on an odd length or a character that is no
\* hexadecimal digit.
HexDecode(t) ==
    IF Len(t) % 2 = 0 /\ \A j \in 1..Len(t) : t[j] \in HexDigits
    THEN [ok |-> TRUE,
          s |-> [j \in 1..(Len(t) \div 2) |-> HexByte(t[2 * j - 1], t[2 * j])]]
    ELSE [ok |-> FALSE, s |-> <<>>]

\* A String that reads the value without asking Contains first.
StringUnguarded(field) ==
    LET r == Value(field) IN
    IF r.out = "panic" THEN Panic
    ELSE IF r.v.k = "nil" THEN Ret(StrV(<<>>))
    ELSE IF r.v.k = "string" THEN Ret(r.v)
    ELSE Ret(StrV(Sprint(r.v)))

\* String - field value by name, converted to string
String(field) ==
    IF ~Contains(field) THEN Panic
    ELSE LET r == Value(field) IN
         IF r.out = "panic" THEN Panic
         ELSE IF r.v.k = "nil" THEN Ret(StrV(<<>>))
         ELSE IF r.v.k = "string" THEN Ret(r.v)
         ELSE IF r.v.k = "bytes"
              THEN IF HexDecode(r.v.s).ok THEN Ret(StrV(HexDecode(r.v.s).s))
                   ELSE Ret(StrV(r.v.s))
         ELSE Ret(StrV(Sprint(r.v)))

\* T(d) for a float64 d of m thousandths: the fraction is dropped.
Truncate(m) == IF m >= 0 THEN m \div 1000 ELSE 0 - ((0 - m) \div 1000)

\* intConvertHelper[T](v)
IntConvertHelper(T, v) ==
    IF v.k = "nil" THEN Ret(IntV(0))
    ELSE CASE v.k = "bool" -> Ret(IntV(IF v.b THEN 1 ELSE 0))
           [] v.k = "int64" -> Ret(IntV(ConvertTo(T, v.i)))
           [] v.k = "float64" -> Ret(IntV(ConvertTo(T, Truncate(v.m))))
           [] v.k = "string" ->
                IF ParseInt(v.s).ok
                THEN Ret(IntV(ConvertTo(T, ParseInt(v.s).i)))
                ELSE Panic
           [] OTHER -> Panic

\* Int64 - field value by name, converted to int64
Int64(field) ==
    IF ~Contains(field) THEN Panic
    ELSE LET r == Value(field) IN
         IF r.out = "panic" THEN Panic
         ELSE IF r.v.k = "nil" THEN Ret(IntV(0))
         ELSE IntConvertHelper(TInt64, r.v)

\* UInt64 - field value by name, converted to uint64
UInt64(field) ==
    IF ~Contains(field) THEN Panic
    ELSE LET r == Value(field) IN
         IF r.out = "panic" THEN Panic
         ELSE IF r.v.k = "nil" THEN Ret(IntV(0))
         ELSE IntConvertHelper(TUInt64, r.v)

\* Int - field value by name, converted to int, on a build whose int has
\* `bits` bits
QueryIntOn(bits, field) ==
    IF ~Contains(field) THEN Panic
    ELSE LET r == Value(field) IN
         IF r.out = "panic" THEN Panic
         ELSE IF r.v.k = "nil" THEN Ret(IntV(0))
         ELSE IntConvertHelper(TInt(bits), r.v)

\* Int on a 64-bit build
QueryInt(field) == QueryIntOn(WideBits, field)

\* Bool - field value by name
Bool(field) ==
    IF ~Contains(field) THEN Panic
    ELSE LET r == Value(field) IN
         IF r.out = "panic" THEN Panic
         ELSE IF r.v.k = "nil" THEN Ret(BoolV(FALSE))
         ELSE CASE r.v.k = "bool" -> Ret(r.v)
                [] r.v.k = "int64" -> Ret(BoolV(r.v.i > 0))
                [] r.v.k = "float64" -> Ret(BoolV(r.v.m > 0))
                [] r.v.k = "string" ->
                     LET t == ToLower(r.v.s) IN
                     IF t = <<"t", "r", "u", "e">> \/ t = <<"y", "e", "s">>
                     THEN Ret(BoolV(TRUE))
                     ELSE IF t = <<"f", "a", "l", "s", "e">> \/ t = <<"n", "o">>
                          THEN Ret(BoolV(FALSE))
                          ELSE Panic
                [] OTHER -> Panic

\* Float64 - field value by name, converted to float64
Float64(field) ==
    IF ~Contains(field) THEN Panic
    ELSE LET r == Value(field) IN
         IF r.out = "panic" THEN Panic
         ELSE IF r.v.k = "nil" THEN Ret(FloatV(0))
         ELSE CASE r.v.k = "bool" -> Ret(FloatV(IF r.v.b THEN 1000 ELSE 0))
                [] r.v.k = "int64" -> Ret(FloatV(1000 * r.v.i))
                [] r.v.k = "float64" -> Ret(r.v)
                [] r.v.k = "string" ->
                     IF ParseFloat(r.v.s).ok
                     THEN Ret(FloatV(ParseFloat(r.v.s).m))
                     ELSE Panic
                [] OTHER -> Panic

\* Float32 - field value by name, converted to float32
Float32(field) ==
    IF Float64(field).out = "panic" THEN Panic
    ELSE Ret(Float32V(Float64(field).v.m))

\* Time: the layout chosen by the length of the text, 1 for
\* "2006-01-02 15:04:05", 2 for "2006-01-02 15:04:05.000" and 3 for
\* "2006-01-02 15:04:05.000 -0700".
TimeLayout(d) ==
    IF Len(d) > 23 THEN 3 ELSE IF Len(d) > 19 THEN 2 ELSE 1

\* time.Parse(layout, d) on the texts of the model: TimeText is an instant in
\* layout 1, no other text of a cell is one in any layout.
TimeParse(layout, d) ==
    IF layout = 1 /\ d = TimeText
    THEN [ok |-> TRUE, t |-> TimeV(732312, 54245, 0)]
    ELSE [ok |-> FALSE, t |-> TimeV(0, 0, 0)]

\* time.Time{}.Add(d microseconds)
ZeroTimeAdd(d) ==
    TimeV((d \div 1000000) \div 86400, (d \div 1000000) % 86400, d % 1000000)

\* Time - field value by name, converted to time.Time
Time(field) ==
    IF ~Contains(field) THEN Panic
    ELSE LET r == Value(field) IN
         IF r.out = "panic" THEN Panic
         ELSE IF r.v.k = "nil" THEN Ret(TimeV(0, 0, 0))
         ELSE CASE r.v.k = "time" -> Ret(r.v)
                [] r.v.k = "string" ->
                     IF TimeParse(TimeLayout(r.v.s), r.v.s).ok
                     THEN Ret(TimeParse(TimeLayout(r.v.s), r.v.s).t)
                     ELSE Panic
                [] r.v.k = "int64" -> Ret(ZeroTimeAdd(r.v.i))
                [] OTHER -> Panic

\* Bytes - field value by name, converted to []byte
Bytes(field) ==
    IF ~Contains(field) THEN Panic
    ELSE LET r == Value(field) IN
         IF r.out = "panic" THEN Panic
         ELSE IF r.v.k = "nil" THEN Ret(BytesV(<<>>))
         ELSE CASE r.v.k = "bytes" -> Ret(r.v)
                [] r.v.k = "string" -> Ret(BytesV(r.v.s))
                [] OTHER -> Panic

\* StringArray
StringArray(field) ==
    IF ~Contains(field) THEN Panic
    ELSE LET r == Value(field) IN
         IF r.out = "panic" THEN Panic
         ELSE IF r.v.k = "nil" THEN Ret(StringsV(<<>>))
         ELSE CASE r.v.k = "[]string" -> Ret(r.v)
                [] r.v.k = "TextArray" -> Ret(StringsV(r.v.e))
                [] OTHER ->
                     IF String(field).out = "panic" THEN Panic
                     ELSE Ret(StringsV(<<String(field).v.s>>))

\* TimeArray
TimeArray(field) ==
    IF ~Contains(field) THEN Panic
    ELSE LET r == Value(field) IN
         IF r.out = "panic" THEN Panic
         ELSE IF r.v.k = "nil" THEN Ret(TimesV(<<>>))
         ELSE CASE r.v.k = "[]time" -> Ret(r.v)
                [] OTHER ->
                     IF Time(field).out = "panic" THEN Panic
                     ELSE Ret(TimesV(<<Time(field).v>>))

\* intArrayHelper[T](q, field), on a build whose int has `bits` bits: an
\* Int8Array element by element; any other cell through q.Int(field), the
\* int then converted to T.
IntArrayHelper(T, bits, field) ==
    IF ~Contains(field) THEN Panic
    ELSE LET r == Value(field) IN
         IF r.out = "panic" THEN Panic
         ELSE IF r.v.k = "nil" THEN Ret(IntsV(<<>>))
         ELSE CASE r.v.k = "Int8Array" ->
                     Ret(IntsV([j \in 1..Len(r.v.e) |-> ConvertTo(T, r.v.e[j])]))
                [] OTHER ->
                     IF QueryIntOn(bits, field).out = "panic" THEN Panic
                     ELSE Ret(IntsV(<<ConvertTo(T, QueryIntOn(bits, field).v.i)>>))

\* IntArray, on a build whose int has `bits` bits
IntArrayOn(bits, field) ==
    IF ~Contains(field) THEN Panic
    ELSE LET r == Value(field) IN
         IF r.out = "panic" THEN Panic
         ELSE IF r.v.k = "nil" THEN Ret(IntsV(<<>>))
         ELSE IntArrayHelper(TInt(bits), bits, field)

\* IntArray64, on a build whose int has `bits` bits
IntArray64On(bits, field) ==
    IF ~Contains(field) THEN Panic
    ELSE LET r == Value(field) IN
         IF r.out = "panic" THEN Panic
         ELSE IF r.v.k = "nil" THEN Ret(IntsV(<<>>))
         ELSE IntArrayHelper(TInt64, bits, field)

\* pool.Acquire(ctx): a connection when one is free and the driver grants
\* it (ok); with every connection out, the call waits until the context
\* ends and returns its error.
PoolAcquire(inUse, ok) == ok /\ inUse < PoolCap

\* FieldTypeIndex(index), the connection being granted (got) or not: the
\* value returned and the connections taken from the pool and not put back.
FieldTypeIndexCall(index, got) ==
    IF rows = Nil \/ index < 0 \/ index >= Len(Fields)
    THEN [ret |-> 0, took |-> 0]
    ELSE IF ~got THEN [ret |-> 0, took |-> 0]
    ELSE [ret |-> DataTypeForOID(Fields[index + 1].OID), took |-> 1]

\* FieldTypeNameIndex(index)
FieldTypeNameIndexCall(index, got) ==
    IF rows = Nil \/ index < 0 \/ index >= Len(Fields)
    THEN [ret |-> "", took |-> 0]
    ELSE IF ~got THEN [ret |-> "", took |-> 0]
    ELSE [ret |-> DataTypeNameForOID(Fields[index + 1].OID), took |-> 1]

\* FieldType(name): "if index, ok := q.fields[name]; ok" (the name as given).
FieldTypeCall(name, got) ==
    IF name \in DOMAIN fields
    THEN FieldTypeIndexCall(fields[name], got)
    ELSE [ret |-> 0, took |-> 0]

\* FieldTypeName(name)
FieldTypeNameCall(name, got) ==
    IF name \in DOMAIN fields
    THEN FieldTypeNameIndexCall(fields[name], got)
    ELSE [ret |-> "", took |-> 0]

\* Duration(field): [out, v, took]; a duration is a count of nanoseconds and
\* time.Microsecond is 1000 of them.
DurationCall(field, got) ==
    IF ~Contains(field) THEN [out |-> "panic", v |-> 0, took |-> 0]
    ELSE LET t == FieldTypeCall(field, got) IN
         IF t.ret = 0 THEN [out |-> "ok", v |-> 0, took |-> t.took]
         ELSE IF t.ret = TimeOID
              THEN LET ms == Int64(field) IN
                   IF ms.out = "panic"
                   THEN [out |-> "panic", v |-> 0, took |-> t.took]
                   ELSE [out |-> "ok", v |-> 1000 * ms.v.i, took |-> t.took]
              ELSE [out |-> "panic", v |-> 0, took |-> t.took]

\* The names a caller looks columns up by.
LookupNames == {<<"x">>, <<"X">>, <<"A", "b">>, <<"a", "b">>, <<"t">>, <<"T">>,
                <<"b">>}

\* The indexes a caller looks columns up by.
LookupIndexes == -1..2

\* The driver cursors a call leaves behind when it clears or reassigns
\* q.rows while the Query holds the cursor r: r itself when it is still open
\* at the driver, unless the call kept q.rows as it was. Exec and Select
\* never call q.rows.Close().
Orphaned(r, kept) == IF r # Nil /\ ~r[1].closed /\ ~kept THEN 1 ELSE 0

\* Exec - executing the insert, update, delete command
QueryExec ==
    /\ \E t \in Tags, ok \in BOOLEAN :
        LET to == Target(qtx, tx) IN
        /\ ok => Len(t) > 0   \* an insert, update or delete that succeeds
                              \* has a tag
        /\ rows' = Nil
        /\ lastValues' = Nil
        /\ lastDescriptions' = Nil
        /\ fields' = EmptyFields
        /\ IF to = "nilhandle"
           THEN /\ tag' = tag
                /\ lastExec' = [kind |-> "exec", out |-> "panic"]
                /\ qres' = QRes("Exec", "panic", "nil", "none", tx # Nil)
           ELSE LET r == DriverExec(t, ok) IN
                /\ tag' = r.tag
                /\ lastExec' = [kind |-> "exec",
                                out |-> IF r.err = "nil" THEN "ok" ELSE "err"]
                /\ qres' = QRes("Exec", IF r.err = "nil" THEN "ok" ELSE "err",
                                Wrap(r.err), to, tx # Nil)
    /\ UNCHANGED <<qtx, acquired, valuesBeforeNext>>
    /\ UNCHANGED txvars

\* The name -> index mapping Select builds from the columns of each result
\* the driver can answer with.
SelectedFields ==
    [rs \in 1..Len(ResultSets) |->
        FieldsMap(RowsFieldDescriptions(NewCursor(rs)))]

\* Select on a Query holding the cursor r, the statement going to `to` and
\* the driver answering with result rs (ok) or an error: the tag, mapping
\* and snapshot are cleared first; a nil handle panics in the driver call
\* and q.rows keeps what it held; a driver error clears q.rows; on success
\* q.rows is the new cursor and the mapping is built from its columns.
SelectCall(r, to, rs, ok) ==
    IF to = "nilhandle"
    THEN [out |-> "panic", ret |-> "nil", route |-> "none", rows |-> r,
          tag |-> <<>>, fields |-> EmptyFields,
          lastValues |-> Nil, lastDescriptions |-> Nil]
    ELSE IF ~ok
    THEN [out |-> "err", ret |-> Wrap("driver"), route |-> to, rows |-> Nil,
          tag |-> <<>>, fields |-> EmptyFields,
          lastValues |-> Nil, lastDescriptions |-> Nil]
    ELSE [out |-> "ok", ret |-> "nil", route |-> to,
          rows |-> <<NewCursor(rs)>>,
          tag |-> <<>>,
          fields |-> SelectedFields[rs],
          lastValues |-> Nil, lastDescriptions |-> Nil]

\* Select - executing the select command
QuerySelect ==
    /\ \E rs \in 1..Len(ResultSets), ok \in BOOLEAN :
        LET r == SelectCall(rows, Target(qtx, tx), rs, ok) IN
        /\ tag' = r.tag
        /\ lastValues' = r.lastValues
        /\ lastDescriptions' = r.lastDescriptions
        /\ rows' = r.rows
        /\ fields' = r.fields
        /\ lastExec' = [kind |-> "select", out |-> r.out]
        /\ qres' = QRes("Select", r.out, r.ret, r.route, tx # Nil)
    /\ UNCHANGED <<qtx, acquired, valuesBeforeNext>>
    /\ UNCHANGED txvars

\* A Next that answers true on a Query without a cursor.
NextWithoutCursor(r, ok) ==
    IF r = Nil THEN [rows |-> r, ret |-> TRUE]
    ELSE [rows |-> <<RowsNext(r[1], ok).c>>, ret |-> RowsNext(r[1], ok).ret]

\* Next: false without a cursor, else what the driver cursor answers.
NextCall(r, ok) ==
    IF r = Nil THEN [rows |-> r, ret |-> FALSE]
    ELSE [rows |-> <<RowsNext(r[1], ok).c>>, ret |-> RowsNext(r[1], ok).ret]

\* Next - get the next row (Select only)
QueryNext ==
    /\ \E ok \in BOOLEAN :
        LET r == NextCall(rows, ok) IN
        /\ rows' = r.rows
        /\ qres' = QRes("Next", "ok", r.ret, "none", FALSE)
    /\ UNCHANGED <<qtx, tag, fields, lastValues, lastDescriptions, acquired,
                   valuesBeforeNext, lastExec>>
    /\ UNCHANGED txvars

\* Close on the cursor r of a Query whose snapshot is (lv, ld): with a
\* cursor, the snapshot becomes the cursor's current values and column
\* directory, the driver cursor is closed, q.rows is cleared and the
\* cursor's error is returned; a panic of rows.Values() leaves everything as
\* it was. Without a cursor, nil and no change. closed is the driver cursor
\* as the call leaves it.
CloseCall(r, lv, ld, before, ok) ==
    IF r # Nil
    THEN LET vs == RowsValues(r[1], before)
             c == RowsClose(r[1], ok)
         IN  IF vs.out = "panic"
             THEN [out |-> "panic", ret |-> "nil", rows |-> r,
                   lastValues |-> lv, lastDescriptions |-> ld,
                   closed |-> r]
             ELSE [out |-> IF RowsErr(c) = "nil" THEN "ok" ELSE "err",
                   ret |-> Wrap(RowsErr(c)), rows |-> Nil,
                   lastValues |-> vs.vals,
                   lastDescriptions |-> RowsFieldDescriptions(r[1]),
                   closed |-> <<c>>]
    ELSE [out |-> "ok", ret |-> "nil", rows |-> r,
          lastValues |-> lv, lastDescriptions |-> ld, closed |-> Nil]

\* Close - close the selection
QueryClose ==
    /\ \E ok \in BOOLEAN :
        LET r == CloseCall(rows, lastValues, lastDescriptions,
                           valuesBeforeNext, ok) IN
        /\ rows' = r.rows
        /\ lastValues' = r.lastValues
        /\ lastDescriptions' = r.lastDescriptions
        /\ qres' = QRes("Close", r.out, r.ret, "none", FALSE)
    /\ UNCHANGED <<qtx, tag, fields, acquired, valuesBeforeNext, lastExec>>
    /\ UNCHANGED txvars

\* SelectRow: Select, then on success one Next and a Close; it returns
\* (Next's answer, Close's error), or (false, Select's error).
SelectRowCall(r, to, rs, ok, nok, cok, before) ==
    LET s == SelectCall(r, to, rs, ok) IN
    IF s.out # "ok"
    THEN [out |-> s.out, ret |-> [ok |-> FALSE, err |-> s.ret],
          route |-> s.route, rows |-> s.rows, tag |-> s.tag,
          fields |-> s.fields, lastValues |-> s.lastValues,
          lastDescriptions |-> s.lastDescriptions]
    ELSE LET n == NextCall(s.rows, nok)
             c == CloseCall(n.rows, s.lastValues, s.lastDescriptions,
                            before, cok)
         IN  [out |-> c.out, ret |-> [ok |-> n.ret, err |-> c.ret],
              route |-> s.route, rows |-> c.rows, tag |-> s.tag,
              fields |-> s.fields, lastValues |-> c.lastValues,
              lastDescriptions |-> c.lastDescriptions]

\* SelectBindRow: the binder first; when it fails the call returns
\* (false, its error) and the Query is as it was; else as SelectRow.
SelectBindRowCall(r, t, f, lv, ld, to, bound, rs, ok, nok, cok, before) ==
    IF ~bound
    THEN [out |-> "err", ret |-> [ok |-> FALSE, err |-> Wrap("bind")],
          route |-> "none", rows |-> r, tag |-> t, fields |-> f,
          lastValues |-> lv, lastDescriptions |-> ld]
    ELSE SelectRowCall(r, to, rs, ok, nok, cok, before)

\* SelectRow - executing the select command, reading its first row
QuerySelectRow ==
    /\ \E ok \in BOOLEAN :
       \E rs \in IF ok THEN 1..Len(ResultSets) ELSE {1},
          nok \in IF ok THEN BOOLEAN ELSE {TRUE},
          cok \in IF ok THEN BOOLEAN ELSE {TRUE} :
       \E r \in {SelectRowCall(rows, Target(qtx, tx), rs, ok, nok, cok,
                               valuesBeforeNext)} :
        /\ tag' = r.tag
        /\ lastValues' = r.lastValues
        /\ lastDescriptions' = r.lastDescriptions
        /\ rows' = r.rows
        /\ fields' = r.fields
        /\ lastExec' = [kind |-> "selectrow", out |-> r.out]
        /\ qres' = QRes("SelectRow", r.out, r.ret, r.route, tx # Nil)
    /\ UNCHANGED <<qtx, acquired, valuesBeforeNext>>
    /\ UNCHANGED txvars

\* SelectBindRow - SelectRow with the binder's named parameters
QuerySelectBindRow ==
    /\ \E bound \in BOOLEAN :
       \E ok \in IF bound THEN BOOLEAN ELSE {FALSE} :
       \E rs \in IF ok THEN 1..Len(ResultSets) ELSE {1},
          nok \in IF ok THEN BOOLEAN ELSE {TRUE},
          cok \in IF ok THEN BOOLEAN ELSE {TRUE} :
       \E r \in {SelectBindRowCall(rows, tag, fields, lastValues,
                                   lastDescriptions, Target(qtx, tx), bound,
                                   rs, ok, nok, cok, valuesBeforeNext)} :
        /\ tag' = r.tag
        /\ lastValues' = r.lastValues
        /\ lastDescriptions' = r.lastDescriptions
        /\ rows' = r.rows
        /\ fields' = r.fields
        /\ lastExec' = IF bound THEN [kind |-> "selectrow", out |-> r.out]
                                ELSE lastExec
        /\ qres' = QRes("SelectBindRow", r.out, r.ret, r.route,
                        bound /\ tx # Nil)
    /\ UNCHANGED <<qtx, acquired, valuesBeforeNext>>
    /\ UNCHANGED txvars

\* A RowsAffected that reads the cursor's tag without closing the cursor.
RowsAffectedWithoutClose(r, ok) ==
    IF r # Nil
    THEN [rows |-> r, ret |-> TagRowsAffected(RowsCommandTag(r[1]))]
    ELSE [rows |-> r, ret |-> 0]

\* RowsAffected: with a cursor, closes it and returns the count of its
\* tag; q.rows keeps the closed cursor. Without a cursor, 0.
RowsAffectedCall(r, ok) ==
    IF r # Nil
    THEN [rows |-> <<RowsClose(r[1], ok)>>,
          ret |-> TagRowsAffected(RowsCommandTag(RowsClose(r[1], ok)))]
    ELSE [rows |-> r, ret |-> 0]

\* RowsAffected - the number of processed rows, for Select closes the query
QueryRowsAffected ==
    /\ \E ok \in BOOLEAN :
        LET r == RowsAffectedCall(rows, ok) IN
        /\ rows' = r.rows
        /\ qres' = QRes("RowsAffected", "ok", r.ret, "none", FALSE)
    /\ UNCHANGED <<qtx, tag, fields, lastValues, lastDescriptions, acquired,
                   valuesBeforeNext, lastExec>>
    /\ UNCHANGED txvars

\* FieldTypeIndex - field type by index
QueryFieldTypeIndex ==
    /\ \E index \in LookupIndexes, ok \in BOOLEAN :
        LET r == FieldTypeIndexCall(index, PoolAcquire(acquired, ok)) IN
        /\ acquired' = acquired + r.took
        /\ qres' = QRes("FieldTypeIndex", "ok", r.ret, "none", FALSE)
    /\ UNCHANGED <<qtx, rows, tag, fields, lastValues, lastDescriptions,
                   valuesBeforeNext, lastExec>>
    /\ UNCHANGED txvars

\* FieldTypeNameIndex - field type name by index
QueryFieldTypeNameIndex ==
    /\ \E index \in LookupIndexes, ok \in BOOLEAN :
        LET r == FieldTypeNameIndexCall(index, PoolAcquire(acquired, ok)) IN
        /\ acquired' = acquired + r.took
        /\ qres' = QRes("FieldTypeNameIndex", "ok", r.ret, "none", FALSE)
    /\ UNCHANGED <<qtx, rows, tag, fields, lastValues, lastDescriptions,
                   valuesBeforeNext, lastExec>>
    /\ UNCHANGED txvars

\* FieldType - field type by name
QueryFieldType ==
    /\ \E name \in LookupNames, ok \in BOOLEAN :
        LET r == FieldTypeCall(name, PoolAcquire(acquired, ok)) IN
        /\ acquired' = acquired + r.took
        /\ qres' = QRes("FieldType", "ok", r.ret, "none", FALSE)
    /\ UNCHANGED <<qtx, rows, tag, fields, lastValues, lastDescriptions,
                   valuesBeforeNext, lastExec>>
    /\ UNCHANGED txvars

\* FieldTypeName - field type name by name
QueryFieldTypeName ==
    /\ \E name \in LookupNames, ok \in BOOLEAN :
        LET r == FieldTypeNameCall(name, PoolAcquire(acquired, ok)) IN
        /\ acquired' = acquired + r.took
        /\ qres' = QRes("FieldTypeName", "ok", r.ret, "none", FALSE)
    /\ UNCHANGED <<qtx, rows, tag, fields, lastValues, lastDescriptions,
                   valuesBeforeNext, lastExec>>
    /\ UNCHANGED txvars

\* Duration - field value by name, converted to time.Duration
QueryDuration ==
    /\ \E name \in LookupNames, ok \in BOOLEAN :
        LET r == DurationCall(name, PoolAcquire(acquired, ok)) IN
        /\ acquired' = acquired + r.took
        /\ qres' = QRes("Duration", r.out, r.v, "none", FALSE)
    /\ UNCHANGED <<qtx, rows, tag, fields, lastValues, lastDescriptions,
                   valuesBeforeNext, lastExec>>
    /\ UNCHANGED txvars

Init == InitTx /\ InitQuery

NextTx == BeginTx \/ Commit \/ Rollback

NextQuery ==
    \/ QueryExec \/ QuerySelect \/ QueryNext \/ QueryClose
    \/ QuerySelectRow \/ QuerySelectBindRow
    \/ QueryRowsAffected
    \/ QueryFieldTypeIndex \/ QueryFieldTypeNameIndex
    \/ QueryFieldType \/ QueryFieldTypeName \/ QueryDuration

\* The Session as a Query made from it sees it. The Query reads only
\* whether the Session holds a handle (q.tx.tx), so beside the Query the
\* Session opens outermost transactions and ends them; nested Begin calls
\* show the Query nothing more.
SessionStep == (counter = 0 /\ BeginTx) \/ Commit \/ Rollback

\* A Session exists beside the Query when the Query was made from one.
Next == (qtx /\ SessionStep) \/ NextQuery

\* The Session alone.
SpecTx == Init /\ [][NextTx]_vars

\* The Query, with the Session it was made from.
Spec == Init /\ [][Next]_vars

\* ------------------------------------------------------- claims on the Tx
\* C1: in every reachable state of the Session the physical transaction
\* handle is present if and only if the nesting counter is greater than 0.
C1_HandleIffCounter == (tx # Nil) <=> (counter > 0)

\* C1 witness: a nested Commit has just returned and the handle is still
\* held at a positive level.
C1_Witness ==
    /\ txres.op = "commit" /\ txres.phys = "none" /\ txres.err = "nil"
    /\ counter > 0 /\ tx # Nil

\* C2: in a clean outermost scope (no Rollback, no failure) that has made
\* `begins` Begin calls and `commits` Commit calls, Level() is
\* begins - commits, so it is 0 only when every Begin is matched; exactly one
\* physical begin was issued, and exactly one physical commit once the last
\* Commit matched, none before.
C2_NestingSymmetry ==
    hist.clean =>
        /\ hist.commits <= hist.begins
        /\ Level = hist.begins - hist.commits
        /\ (Level = 0 <=> hist.commits = hist.begins)
        /\ hist.physBegin = (IF hist.begins >= 1 THEN 1 ELSE 0)
        /\ hist.physCommit =
              (IF hist.begins >= 1 /\ hist.commits = hist.begins THEN 1 ELSE 0)

\* C2 witness: a scope of at least two Begin calls closed by its last Commit.
C2_Witness ==
    /\ hist.clean /\ hist.begins >= 2 /\ hist.commits = hist.begins
    /\ txres.op = "commit" /\ txres.phys = "commit" /\ Level = 0

\* C3: a Rollback at any depth k >= 1 issues one physical rollback, sets
\* Level() to 0 and clears the handle whether the driver succeeds or fails;
\* until Begin is called again the state stays so, and every Commit or
\* Rollback fails with the no-active-transaction error and no driver call.
C3_RollbackSupersedes ==
    [][ /\ (counter > 0 /\ txres'.op = "rollback") =>
              /\ txres'.phys = "rollback"
              /\ txres'.err = (IF txres'.drv = "ok" THEN "nil" ELSE "driver")
              /\ counter' = 0 /\ tx' = Nil
              /\ hist'.rolledBack
        /\ hist.rolledBack => (counter = 0 /\ tx = Nil)
        /\ (hist.rolledBack /\ txres'.op \in {"commit", "rollback"}) =>
              /\ txres'.err = "notx" /\ txres'.phys = "none"
              /\ counter' = 0 /\ tx' = Nil /\ hist'.rolledBack
      ]_vars

\* C3 witness: Scenario C, a Commit refused after a Rollback at depth >= 1.
C3_Witness ==
    /\ hist.rolledBack /\ txres.op = "commit" /\ txres.err = "notx"
    /\ counter = 0 /\ tx = Nil

\* C4: a Commit or Rollback called at Level() = 0 returns a non-nil error,
\* issues no driver call and leaves Level() at 0 and the handle absent.
C4_EndWithoutTransaction ==
    [][ (counter = 0 /\ txres'.op \in {"commit", "rollback"}) =>
            /\ txres'.err # "nil"
            /\ txres'.phys = "none" /\ txres'.drv = "none"
            /\ counter' = 0 /\ tx' = Nil
      ]_vars

\* C4 witness: a Rollback refused on a Session that never began.
C4_Witness ==
    /\ txres.op = "rollback" /\ txres.err = "notx"
    /\ ~hist.rolledBack /\ counter = 0 /\ tx = Nil

\* C5: a Begin at Level() = 0 issues a physical begin; when it fails the
\* call returns a non-nil error and counter and handle are unchanged (0 and
\* absent), so the next Begin issues a physical begin again.
C5_FailedBeginUnchanged ==
    [][ /\ (counter = 0 /\ txres'.op = "begin") =>
              /\ txres'.phys = "begin"
              /\ txres'.drv = "fail" =>
                    (txres'.err = "driver" /\ counter' = 0 /\ tx' = Nil)
              /\ txres'.drv = "ok" =>
                    (txres'.err = "nil" /\ counter' = 1 /\ tx' # Nil)
        /\ (txres.op = "begin" /\ txres.drv = "fail") =>
              (counter = 0 /\ tx = Nil)
      ]_vars

\* C5 witness: a physical begin has just failed.
C5_Witness ==
    /\ txres.op = "begin" /\ txres.drv = "fail" /\ txres.err = "driver"
    /\ counter = 0 /\ tx = Nil

\* C6: the Commit at counter 1 issues the physical commit and returns its
\* outcome, leaving Level() = 0 and no handle even when it fails, so the
\* next Commit or Rollback is refused and the next Begin is a physical
\* begin; a Commit at counter > 1 only decrements the counter.
C6_OutermostCommit ==
    [][ /\ (counter = 1 /\ txres'.op = "commit") =>
              /\ txres'.phys = "commit"
              /\ txres'.err = (IF txres'.drv = "ok" THEN "nil" ELSE "driver")
              /\ counter' = 0 /\ tx' = Nil
        /\ (counter > 1 /\ txres'.op = "commit") =>
              /\ txres'.phys = "none" /\ txres'.err = "nil"
              /\ counter' = counter - 1 /\ tx' = tx
        /\ (txres.op = "commit" /\ txres.drv = "fail") =>
              /\ counter = 0 /\ tx = Nil
              /\ txres'.op \in {"commit", "rollback"} =>
                    (txres'.err = "notx" /\ txres'.phys = "none")
              /\ txres'.op = "begin" => txres'.phys = "begin"
      ]_vars

\* C6 witness: the physical commit of the outermost Commit has failed.
C6_Witness ==
    /\ txres.op = "commit" /\ txres.drv = "fail" /\ txres.err = "driver"
    /\ counter = 0 /\ tx = Nil

\* ---------------------------------------------------- claims on the Query
\* C7: RowsAffected() called on a Query whose last statement was a
\* successful Exec returns the affected-row count of the stored command tag;
\* with neither a cursor nor a command tag it returns 0.
C7_RowsAffectedOfCommand ==
    qres.op = "RowsAffected" =>
        /\ (lastExec.kind = "exec" /\ lastExec.out = "ok") =>
              qres.ret = TagRowsAffected(tag)
        /\ (rows = Nil /\ ~IsCommand) => qres.ret = 0

\* A Close that returns, on a cursor that Select opened and one successful
\* Next advanced to its first row.
CloseAfterFirstRow ==
    /\ lastExec.kind = "select" /\ lastExec.out = "ok"
    /\ rows # Nil /\ ~rows[1].closed /\ rows[1].pos = 1
    /\ qres'.op = "Close" /\ qres'.out # "panic" /\ rows' = Nil

\* C8: after Select, one successful Next and Close, every field, value and
\* type accessor returns what it returned immediately before the Close (the
\* accessors that acquire a connection: for the same answer of the pool).
C8_SnapshotStability ==
    [][ CloseAfterFirstRow =>
          /\ Fields' = Fields
          /\ Values' = Values
          /\ \A i \in LookupIndexes :
                /\ FieldName(i)' = FieldName(i)
                /\ ValueIndex(i)' = ValueIndex(i)
                /\ \A got \in BOOLEAN :
                      /\ FieldTypeIndexCall(i, got).ret' =
                            FieldTypeIndexCall(i, got).ret
                      /\ FieldTypeNameIndexCall(i, got).ret' =
                            FieldTypeNameIndexCall(i, got).ret
          /\ \A n \in LookupNames :
                /\ Contains(n)' = Contains(n)
                /\ Value(n)' = Value(n)
                /\ String(n)' = String(n)
                /\ Int64(n)' = Int64(n)
                /\ QueryInt(n)' = QueryInt(n)
                /\ Bool(n)' = Bool(n)
                /\ \A got \in BOOLEAN :
                      /\ FieldTypeCall(n, got).ret' = FieldTypeCall(n, got).ret
                      /\ FieldTypeNameCall(n, got).ret' =
                            FieldTypeNameCall(n, got).ret
                      /\ DurationCall(n, got).out' = DurationCall(n, got).out
                      /\ DurationCall(n, got).v' = DurationCall(n, got).v
      ]_vars

\* C9: from the return of a successful Exec or Select until the next one,
\* exactly one of IsSelect and IsCommand is true and it is the one of the kind
\* of that execution; and an Exec or Select leaves no cursor, tag, column
\* mapping or snapshot of the execution before it.
C9_ExactlyOneOutcome ==
    /\ (lastExec.out = "ok" /\ lastExec.kind = "select") =>
          (IsSelect /\ ~IsCommand)
    /\ (lastExec.out = "ok" /\ lastExec.kind = "exec") =>
          (IsCommand /\ ~IsSelect)
    /\ qres.op = "Exec" =>
          /\ rows = Nil /\ fields = EmptyFields
          /\ lastValues = Nil /\ lastDescriptions = Nil
    /\ qres.op = "Select" =>
          /\ tag = <<>> /\ lastValues = Nil /\ lastDescriptions = Nil
          /\ IF qres.out = "ok"
             THEN /\ rows # Nil /\ rows[1].pos = 0
                  /\ fields = FieldsMap(RowsFieldDescriptions(rows[1]))
             ELSE rows = Nil /\ fields = EmptyFields

\* C10: an Exec or Select of a Query made by NewQueryTx goes to the
\* Session's handle when the Session holds one and to the pool when it holds
\* none, and in both cases the call returns (a result or an error), it does
\* not abort.
C10_RoutesAndReturns ==
    qres.op \in {"Exec", "Select"} =>
        /\ qres.out # "panic"
        /\ qres.route = (IF qtx /\ qres.inTx THEN "tx" ELSE "pool")

\* The state right after an Exec or Select that failed at the driver.
FailedAtDriver == qres.op \in {"Exec", "Select"} /\ qres.out = "err"

\* C11: an Exec or Select that fails at the driver returns a non-nil error
\* and leaves the Query fully cleared: no cursor (IsSelect false, a Next
\* returns false), no command tag (IsCommand false, whatever the execution
\* before it or the failed driver call produced), an empty column mapping and
\* an empty snapshot.
C11_FailedExecutionClears ==
    [][ /\ FailedAtDriver' =>
            /\ qres'.ret # "nil"
            /\ ~IsSelect' /\ ~IsCommand'
            /\ fields' = EmptyFields
            /\ lastValues' = Nil /\ lastDescriptions' = Nil
        /\ (FailedAtDriver /\ qres'.op = "Next") => qres'.ret = FALSE
      ]_vars

\* The Query holds a cursor that the driver has closed.
HeldClosed == rows # Nil /\ rows[1].closed

SelectRowFromHere(bound, rs, ok, nok, cok) ==
    SelectBindRowCall(rows, tag, fields, lastValues, lastDescriptions,
                      Target(qtx, tx), bound, rs, ok, nok, cok,
                      valuesBeforeNext)

\* The state right after a SelectRow or SelectBindRow that returned true.
ReturnedFirstRow ==
    /\ qres.op \in {"SelectRow", "SelectBindRow"}
    /\ qres.out # "panic"
    /\ qres.ret.ok

\* C13: SelectRow and SelectBindRow return (true, nil) exactly when the
\* Select succeeded, a first row existed and Close surfaced no error; on
\* every return path no cursor is left active (IsSelect false); and after a
\* return of true the by-name value and typed accessors read the first row
\* from the snapshot (Duration of a time-of-day cell: its microseconds as a
\* duration).
C13_SelectRowOutcome ==
    /\ \A bound \in BOOLEAN, rs \in 1..Len(ResultSets), ok \in BOOLEAN,
         nok \in BOOLEAN, cok \in BOOLEAN :
          LET c == SelectRowFromHere(bound, rs, ok, nok, cok) IN
          c.out # "panic" =>
              /\ (c.ret.ok /\ c.ret.err = "nil") <=>
                    /\ bound /\ ok
                    /\ nok /\ Len(ResultSets[rs].data) > 0
                    /\ cok
              /\ c.rows = Nil
    /\ ReturnedFirstRow =>
          \E rs \in 1..Len(ResultSets) :
              /\ Len(ResultSets[rs].data) > 0
              /\ lastDescriptions = ResultSets[rs].cols
              /\ lastValues = ResultSets[rs].data[1]
              /\ \A i \in 1..Len(ResultSets[rs].cols) :
                    LET n == ResultSets[rs].cols[i].Name
                        v == ResultSets[rs].data[1][i]
                    IN  /\ Value(n) = Ret(v)
                        /\ Int64(n) = IntConvertHelper(TInt64, v)
                        /\ (ResultSets[rs].cols[i].OID = TimeOID
                               /\ v.k = "int64") =>
                              /\ DurationCall(n, TRUE).out = "ok"
                              /\ DurationCall(n, TRUE).v = 1000 * v.i

\* What Close does from the current state, the driver's close succeeding
\* (ok) or surfacing an error.
CloseFromHere(ok) ==
    CloseCall(rows, lastValues, lastDescriptions, valuesBeforeNext, ok)

\* C14: Close on a Query with an active cursor captures the current row's
\* values and the column directory, releases the driver cursor, returns the
\* error the driver surfaces at close and leaves the cursor inactive even
\* when that error is non-nil; Close with no active cursor returns nil and
\* changes nothing; a second Close in a row returns nil and leaves the
\* snapshot of the first intact.
C14_CloseCapturesAndReleases ==
    \A ok \in BOOLEAN :
        LET c == CloseFromHere(ok) IN
        /\ rows # Nil =>
              /\ c.out # "panic"
              /\ (~rows[1].closed /\ rows[1].pos > 0) =>
                    c.lastValues = ResultSets[rows[1].rs].data[rows[1].pos]
              /\ c.lastDescriptions = RowsFieldDescriptions(rows[1])
              /\ c.closed[1].closed /\ c.closed[1].rel = 1
              /\ c.ret = RowsErr(c.closed[1])
              /\ (~rows[1].closed /\ ~ok) => c.ret # "nil"
              /\ c.rows = Nil
              /\ \A again \in BOOLEAN :
                    LET d == CloseCall(c.rows, c.lastValues,
                                       c.lastDescriptions, valuesBeforeNext,
                                       again)
                    IN  /\ d.out = "ok" /\ d.ret = "nil"
                        /\ d.lastValues = c.lastValues
                        /\ d.lastDescriptions = c.lastDescriptions
        /\ rows = Nil =>
              /\ c.out = "ok" /\ c.ret = "nil"
              /\ c.rows = rows
              /\ c.lastValues = lastValues
              /\ c.lastDescriptions = lastDescriptions

\* C15: Next returns false whenever the Query has no cursor (a fresh Query,
\* after Exec, after a failed Select, after Close); a successful Select
\* leaves the cursor before the first row, and while the driver delivers the
\* result of n rows a Next on the cursor that has passed p rows returns true
\* and passes one more when p < n, and returns false, reporting no error,
\* when p = n and ever after (SELECT 1 AS x: Next is true, Int("x") is 1,
\* Next is false).
C15_NextCountsRows ==
    /\ (\/ qres.op \in {"none", "Exec"}
        \/ qres.op = "Select" /\ qres.out = "err"
        \/ qres.op = "Close" /\ qres.out # "panic") => rows = Nil
    /\ rows = Nil =>
          \A ok \in BOOLEAN : NextCall(rows, ok) = [rows |-> Nil, ret |-> FALSE]
    /\ (qres.op = "Select" /\ qres.out = "ok") =>
          /\ rows # Nil /\ ~rows[1].closed /\ rows[1].pos = 0
    /\ rows # Nil =>
          LET c == rows[1]
              n == Len(ResultSets[c.rs].data)
              r == NextCall(rows, TRUE)
          IN  /\ c.pos <= n
              /\ (~c.closed /\ c.pos < n) =>
                    /\ r.ret = TRUE
                    /\ r.rows = <<[c EXCEPT !.pos = c.pos + 1]>>
              /\ (~c.closed /\ c.pos = n) =>
                    /\ r.ret = FALSE
                    /\ r.rows[1].closed /\ r.rows[1].err = c.err
              /\ c.closed => (r.ret = FALSE /\ r.rows = rows)
    /\ (/\ lastExec = [kind |-> "select", out |-> "ok"]
        /\ qres.op = "Next" /\ qres.ret = TRUE /\ rows[1].rs = 1) =>
          QueryInt(<<"x">>) = Ret(IntV(1))

\* SELECT 1 AS x after its second Next: one row passed, the cursor at its
\* end and no error.
C15_Witness ==
    /\ qres.op = "Next" /\ qres.ret = FALSE
    /\ lastExec = [kind |-> "select", out |-> "ok"]
    /\ rows # Nil /\ rows[1].rs = 1 /\ rows[1].pos = 1
    /\ rows[1].closed /\ rows[1].err = "nil"

\* The letters of the names looked up, in both cases.
Letters == DOMAIN LowerOf \cup {LowerOf[c] : c \in DOMAIN LowerOf}

\* Every spelling of a name that differs from it in letter case only.
CaseVariants(name) ==
    {v \in [1..Len(name) -> Letters] : ToLower(v) = ToLower(name)}

\* Every name of one or two letters.
AllNames == UNION {[1..n -> Letters] : n \in 1..2}

\* C16: after a successful Select, for every column name c of the result
\* and every spelling c' of it that differs in letter case only, Contains(c')
\* is true and Value(c') is Value(c); for a name that matches no column in
\* any case Contains is false.
C16_CaseInsensitiveLookup ==
    lastExec = [kind |-> "select", out |-> "ok"] =>
        /\ \A i \in 1..Len(Fields) :
              \A v \in CaseVariants(Fields[i].Name) :
                  /\ Contains(v)
                  /\ Value(v) = Value(Fields[i].Name)
        /\ \A n \in AllNames :
              (\A i \in 1..Len(Fields) :
                    ToLower(n) # ToLower(Fields[i].Name)) => ~Contains(n)

\* The cursor on the first row of the result with the column "Ab", read by
\* the spelling "aB".
C16_Witness ==
    /\ lastExec = [kind |-> "select", out |-> "ok"]
    /\ rows # Nil /\ ~rows[1].closed /\ rows[1].rs = 2 /\ rows[1].pos = 1
    /\ <<"a", "B">> \in CaseVariants(Fields[1].Name)
    /\ Value(<<"a", "B">>) = Ret(StrV(<<"y", "e", "s">>))

\* The outcomes of every typed accessor on the name `field`: Int and the
\* integer arrays on each build, Duration for each answer of the pool.
TypedOutcomes(field) ==
    {Int64(field).out, UInt64(field).out, Bool(field).out,
     Float32(field).out, Float64(field).out, Time(field).out,
     Bytes(field).out, String(field).out, StringArray(field).out,
     TimeArray(field).out}
    \cup {QueryIntOn(bits, field).out : bits \in IntWidths}
    \cup {IntArrayOn(bits, field).out : bits \in IntWidths}
    \cup {IntArray64On(bits, field).out : bits \in IntWidths}
    \cup {DurationCall(field, got).out : got \in BOOLEAN}

\* C17: for a name a caller looks up that is not in the mapping every typed
\* accessor (Int, Int64, UInt64, Bool, Float32, Float64, Time, Duration,
\* Bytes, String, StringArray, TimeArray, IntArray, IntArray64) aborts, while
\* Contains,
\* FieldType, FieldTypeName and Value return false, 0, "" and nil and never
\* abort.
C17_UnknownColumn ==
    \A n \in LookupNames :
        ToLower(n) \notin DOMAIN fields =>
            /\ TypedOutcomes(n) = {"panic"}
            /\ Contains(n) = FALSE
            /\ Value(n) = Ret(NullV)
            /\ \A got \in BOOLEAN :
                  /\ FieldTypeCall(n, got) = [ret |-> 0, took |-> 0]
                  /\ FieldTypeNameCall(n, got) = [ret |-> "", took |-> 0]

\* The cursor on the first row of the result with the columns "Ab", "t",
\* ...: the name "b" is no column of it.
C17_Witness ==
    /\ rows # Nil /\ ~rows[1].closed /\ rows[1].rs = 2 /\ rows[1].pos = 1
    /\ Contains(<<"t">>) /\ ~Contains(<<"b">>)
    /\ String(<<"b">>) = Panic
    /\ Value(<<"b">>) = Ret(NullV)

\* Two accessor results are the same: both abort, or both return the same
\* value.
SameResult(a, b) == a.out = b.out /\ (a.out = "ok" => a.v = b.v)

\* Column i (from 1) of the row the accessors read - the cursor's current
\* row, or the snapshot - is SQL NULL.
NullCell(i) ==
    /\ rows # Nil => (~rows[1].closed /\ rows[1].pos > 0)
    /\ Values.out = "ok" /\ Values.err = "nil"
    /\ Len(Values.vals) >= i
    /\ Values.vals[i].k = "nil"

\* C18: for every existing column, whatever its declared wire type, whose
\* value is null every typed accessor, Duration included, returns the zero
\* value of its type (0, false, "", the zero instant, empty bytes, an empty
\* list, a zero duration) and does not abort.
C18_NullZeroValue ==
    \A i \in 1..Len(Fields) :
        LET n == ToLower(Fields[i].Name) IN
        (Contains(n) /\ fields[n] = i - 1 /\ NullCell(i)) =>
            /\ SameResult(Int64(n), Ret(IntV(0)))
            /\ SameResult(UInt64(n), Ret(IntV(0)))
            /\ SameResult(Bool(n), Ret(BoolV(FALSE)))
            /\ SameResult(Float64(n), Ret(FloatV(0)))
            /\ SameResult(Float32(n), Ret(Float32V(0)))
            /\ SameResult(Time(n), Ret(TimeV(0, 0, 0)))
            /\ SameResult(Bytes(n), Ret(BytesV(<<>>)))
            /\ SameResult(String(n), Ret(StrV(<<>>)))
            /\ SameResult(StringArray(n), Ret(StringsV(<<>>)))
            /\ SameResult(TimeArray(n), Ret(TimesV(<<>>)))
            /\ \A bits \in IntWidths :
                  /\ SameResult(QueryIntOn(bits, n), Ret(IntV(0)))
                  /\ SameResult(IntArrayOn(bits, n), Ret(IntsV(<<>>)))
                  /\ SameResult(IntArray64On(bits, n), Ret(IntsV(<<>>)))
            /\ \A got \in BOOLEAN :
                  /\ DurationCall(n, got).out = "ok"
                  /\ DurationCall(n, got).v = 0

\* The kinds of a cell that are one value, not a list.
ScalarKinds == {"bool", "int64", "float64", "string", "time", "bytes"}

\* The result `list` of an array accessor that wraps a scalar accessor whose
\* outcome is out and whose value is v: it aborts when the scalar accessor
\* does, else it is the one-element list of v.
Promoted(out, v, list) ==
    IF out = "panic" THEN list.out = "panic"
    ELSE list.out = "ok" /\ list.v.e = <<v>>

\* C19: for a column whose current value is a non-null scalar v, StringArray
\* gives [String(v)], TimeArray gives [Time(v)], IntArray gives [Int(v)] and
\* IntArray64 gives [Int64(v)]; when the scalar accessor aborts on v, the
\* array accessor aborts too.
C19_ScalarPromotion ==
    \A i \in 1..Len(Fields) :
        LET n == ToLower(Fields[i].Name) IN
        (/\ Contains(n) /\ Value(n).out = "ok"
         /\ Value(n).v.k \in ScalarKinds) =>
            /\ Promoted(String(n).out, String(n).v.s, StringArray(n))
            /\ Promoted(Time(n).out, Time(n).v, TimeArray(n))
            /\ \A bits \in IntWidths :
                  /\ Promoted(QueryIntOn(bits, n).out, QueryIntOn(bits, n).v.i,
                              IntArrayOn(bits, n))
                  /\ Promoted(Int64(n).out, Int64(n).v.i,
                              IntArray64On(bits, n))

\* C20: while the cursor of a successful Select is active, for every column
\* name c and every spelling c' of it that differs in letter case only,
\* FieldType(c') is FieldType(c), FieldTypeName(c') is FieldTypeName(c) and
\* Duration(c') is Duration(c) (for the same answer of the pool).
C20_TypeLookupCaseInsensitive ==
    (lastExec = [kind |-> "select", out |-> "ok"] /\ rows # Nil) =>
        \A i \in 1..Len(Fields) :
            \A v \in CaseVariants(Fields[i].Name), got \in BOOLEAN :
                /\ FieldTypeCall(v, got).ret =
                      FieldTypeCall(Fields[i].Name, got).ret
                /\ FieldTypeNameCall(v, got).ret =
                      FieldTypeNameCall(Fields[i].Name, got).ret
                /\ DurationCall(v, got).out =
                      DurationCall(Fields[i].Name, got).out
                /\ DurationCall(v, got).v =
                      DurationCall(Fields[i].Name, got).v

\* C21: FieldTypeIndex, FieldTypeNameIndex, FieldType, FieldTypeName and
\* Duration hold no pooled connection after they return: the Query never
\* has a connection checked out, and from every state each of these calls,
\* whatever the pool answers, leaves the number checked out as it was - so
\* no call ever finds the pool used up by earlier calls.
C21_IntrospectionHoldsNoConnection ==
    /\ acquired = 0
    /\ \A ok \in BOOLEAN :
          LET got == PoolAcquire(acquired, ok) IN
          /\ \A index \in LookupIndexes :
                /\ FieldTypeIndexCall(index, got).took = 0
                /\ FieldTypeNameIndexCall(index, got).took = 0
          /\ \A name \in LookupNames :
                /\ FieldTypeCall(name, got).took = 0
                /\ FieldTypeNameCall(name, got).took = 0
                /\ DurationCall(name, got).took = 0

\* C22: every driver cursor the Query opens is released: an Exec or a
\* Select called in any state closes the open cursor the Query holds before
\* it drops the reference to it, so the call leaves no cursor behind
\* unclosed and, with the cursor a Select opens, at most one driver cursor
\* opened by the Query is unreleased.
C22_CursorsReleased ==
    /\ Orphaned(rows, FALSE) = 0
    /\ \A rs \in 1..Len(ResultSets), ok \in BOOLEAN :
          LET s == SelectCall(rows, Target(qtx, tx), rs, ok) IN
          /\ Orphaned(rows, s.out = "panic") = 0
          /\ Orphaned(rows, s.out = "panic") + Orphaned(s.rows, FALSE) <= 1

====
